---- MODULE Spec2Model ----
(***************************************************************************)
(* A model of the limit order book of simple-lob (src/src/lib.rs).         *)
(*                                                                         *)
(* A Market owns a buy book, a sell book and an order nonce.  Its one      *)
(* operation, submit_order, sweeps the opposite book with the incoming     *)
(* order and rests the unfilled remainder in the order's own book.         *)
(*                                                                         *)
(* Prices are f32 in the source.  They are modelled in sign-magnitude form *)
(* (as the float's bits are), so that -0.0 and +0.0 are two values:        *)
(* total_cmp, which sorts the books, tells them apart, while >= and <=,    *)
(* which decide crossing, do not.                                          *)
(***************************************************************************)
EXTENDS Integers, Sequences, FiniteSets

\* Bounds of the model.
MaxPrice == 1
MaxAmount == 2
MaxTrader == 2
MaxNonce == 3

Sides == {"Buy", "Sell"}

\* The finite f32 values of the model: sign bit and magnitude.
Prices == [neg : BOOLEAN, mag : 0..MaxPrice]

Amounts == 0..MaxAmount

Traders == 1..MaxTrader

\* The numeric value of a price, as the operators >= and <= see it.
Val(p) == IF p.neg THEN 0 - p.mag ELSE p.mag

\* The integer whose order is f32::total_cmp's order on the bits.
TotalKey(p) == IF p.neg THEN (0 - p.mag) - 1 ELSE p.mag

total_cmp(a, b) ==
    IF TotalKey(a) < TotalKey(b) THEN "Less"
    ELSE IF TotalKey(a) > TotalKey(b) THEN "Greater"
    ELSE "Equal"

nonce_cmp(a, b) ==
    IF a < b THEN "Less" ELSE IF a > b THEN "Greater" ELSE "Equal"

opposite(side) == IF side = "Buy" THEN "Sell" ELSE "Buy"

Fill(amount, price, side, trader, counter_party) ==
    [side |-> side, amount |-> amount, price |-> price,
     trader |-> trader, counter_party |-> counter_party]

LimitOrder(price, nonce, amount, trader_id) ==
    [price |-> price, nonce |-> nonce, amount |-> amount, trader_id |-> trader_id]

is_zero(o) == o.amount = 0

\* LimitOrder::try_fill that does not debit the incoming order when the resting
\* order is the smaller one.
LimitOrder_try_fill_NoDebit(self, other, side) ==
    LET fill_amount == IF self.amount <= other.amount THEN self.amount ELSE other.amount
        self2 == IF self.amount <= other.amount
                 THEN [self EXCEPT !.amount = 0]
                 ELSE [self EXCEPT !.amount = self.amount - other.amount]
        other2 == IF self.amount <= other.amount
                  THEN other
                  ELSE [other EXCEPT !.amount = 0]
    IN [some |-> TRUE, self |-> self2, other |-> other2,
        fills |-> << Fill(fill_amount, self.price, side, self.trader_id, other.trader_id),
                     Fill(fill_amount, self.price, opposite(side), other.trader_id, self.trader_id) >>]

\* LimitOrder::try_fill whose second fill names the parties as the first does.
LimitOrder_try_fill_SameParty(self, other, side) ==
    LET fill_amount == IF self.amount <= other.amount THEN self.amount ELSE other.amount
        self2 == IF self.amount <= other.amount
                 THEN [self EXCEPT !.amount = 0]
                 ELSE [self EXCEPT !.amount = self.amount - other.amount]
        other2 == IF self.amount <= other.amount
                  THEN [other EXCEPT !.amount = other.amount - self.amount]
                  ELSE [other EXCEPT !.amount = 0]
    IN [some |-> TRUE, self |-> self2, other |-> other2,
        fills |-> << Fill(fill_amount, self.price, side, self.trader_id, other.trader_id),
                     Fill(fill_amount, self.price, opposite(side), self.trader_id, other.trader_id) >>]

\* LimitOrder::try_fill that prices the fills at the incoming order's price.
LimitOrder_try_fill_OtherPrice(self, other, side) ==
    LET fill_amount == IF self.amount <= other.amount THEN self.amount ELSE other.amount
        self2 == IF self.amount <= other.amount
                 THEN [self EXCEPT !.amount = 0]
                 ELSE [self EXCEPT !.amount = self.amount - other.amount]
        other2 == IF self.amount <= other.amount
                  THEN [other EXCEPT !.amount = other.amount - self.amount]
                  ELSE [other EXCEPT !.amount = 0]
    IN [some |-> TRUE, self |-> self2, other |-> other2,
        fills |-> << Fill(fill_amount, other.price, side, self.trader_id, other.trader_id),
                     Fill(fill_amount, other.price, opposite(side), other.trader_id, self.trader_id) >>]

\* LimitOrder::try_fill with the branches of the comparison exchanged.
LimitOrder_try_fill_Underflow(self, other, side) ==
    LET fill_amount == IF self.amount > other.amount THEN self.amount ELSE other.amount
        self2 == IF self.amount > other.amount
                 THEN [self EXCEPT !.amount = 0]
                 ELSE [self EXCEPT !.amount = self.amount - other.amount]
        other2 == IF self.amount > other.amount
                  THEN [other EXCEPT !.amount = other.amount - self.amount]
                  ELSE [other EXCEPT !.amount = 0]
    IN [some |-> TRUE, self |-> self2, other |-> other2,
        fills |-> << Fill(fill_amount, self.price, side, self.trader_id, other.trader_id),
                     Fill(fill_amount, self.price, opposite(side), other.trader_id, self.trader_id) >>]

\* LimitOrder::try_fill: self is the resting order, side is its side.
LimitOrder_try_fill(self, other, side) ==
    LET fill_amount == IF self.amount <= other.amount THEN self.amount ELSE other.amount
        self2 == IF self.amount <= other.amount
                 THEN [self EXCEPT !.amount = 0]
                 ELSE [self EXCEPT !.amount = self.amount - other.amount]
        other2 == IF self.amount <= other.amount
                  THEN [other EXCEPT !.amount = other.amount - self.amount]
                  ELSE [other EXCEPT !.amount = 0]
    IN [some |-> TRUE, self |-> self2, other |-> other2,
        fills |-> << Fill(fill_amount, self.price, side, self.trader_id, other.trader_id),
                     Fill(fill_amount, self.price, opposite(side), other.trader_id, self.trader_id) >>]

\* The crossing test with strict comparisons.
Crosses_Strict(self, other, side) ==
    IF side = "Buy" THEN Val(self.price) > Val(other.price)
                    ELSE Val(self.price) < Val(other.price)

\* The crossing test refusing an order of the same trader.
Crosses_NoSelfTrade(self, other, side) ==
    /\ self.trader_id # other.trader_id
    /\ IF side = "Buy" THEN Val(self.price) >= Val(other.price)
                       ELSE Val(self.price) <= Val(other.price)

\* The crossing test of the side-typed wrappers.
Crosses(self, other, side) ==
    IF side = "Buy" THEN Val(self.price) >= Val(other.price)
                    ELSE Val(self.price) <= Val(other.price)

\* try_fill without the crossing test.
try_fill_NoPriceCheck(self, other, side) ==
    LimitOrder_try_fill(self, other, side)

\* TryFill::try_fill for BuyLimitOrder (side = "Buy") and SellLimitOrder.
try_fill(self, other, side) ==
    IF Crosses(self, other, side)
    THEN LimitOrder_try_fill(self, other, side)
    ELSE [some |-> FALSE, self |-> self, other |-> other, fills |-> << >>]

\* Ord::cmp with the tie on price broken by the larger nonce.
cmp_NewestFirst(a, b, side) ==
    LET c == total_cmp(a.price, b.price)
    IN IF c = "Equal" THEN nonce_cmp(b.nonce, a.nonce)
       ELSE IF side = "Sell" THEN c
       ELSE IF c = "Greater" THEN "Less" ELSE "Greater"

\* Ord::cmp that sorts buy orders by ascending price, as it does sell orders.
cmp_NoReverse(a, b, side) ==
    LET c == total_cmp(a.price, b.price)
    IN IF c = "Equal" THEN nonce_cmp(a.nonce, b.nonce) ELSE c

\* Ord::cmp of the order wrappers of a book of the given side.
cmp(a, b, side) ==
    LET c == total_cmp(a.price, b.price)
    IN IF c = "Equal" THEN nonce_cmp(a.nonce, b.nonce)
       ELSE IF side = "Sell" THEN c
       ELSE IF c = "Greater" THEN "Less" ELSE "Greater"

\* VecDeque::binary_search: [found, idx], idx counted from 0.
RECURSIVE BSearch(_, _, _, _, _)
BSearch(book, order, side, lo, hi) ==
    IF lo >= hi THEN [found |-> FALSE, idx |-> lo]
    ELSE LET mid == lo + ((hi - lo) \div 2)
             c == cmp(book[mid + 1], order, side)
         IN IF c = "Equal" THEN [found |-> TRUE, idx |-> mid]
            ELSE IF c = "Less" THEN BSearch(book, order, side, mid + 1, hi)
            ELSE BSearch(book, order, side, lo, mid)

binary_search(book, order, side) == BSearch(book, order, side, 0, Len(book))

\* VecDeque::insert at index idx (from 0).
InsertAt(book, idx, order) ==
    SubSeq(book, 1, idx) \o << order >> \o SubSeq(book, idx + 1, Len(book))

\* insert_order that appends instead of inserting at the index found.
insert_order_PushBack(book, order, side) ==
    LET r == binary_search(book, order, side)
    IN IF ~r.found
       THEN [ok |-> TRUE, book |-> Append(book, order)]
       ELSE [ok |-> FALSE, book |-> book]

\* insert_order that puts the order at the front.
insert_order_PushFront(book, order, side) ==
    LET r == binary_search(book, order, side)
    IN IF ~r.found
       THEN [ok |-> TRUE, book |-> << order >> \o book]
       ELSE [ok |-> FALSE, book |-> book]

\* OrderBook::insert_order.
insert_order(book, order, side) ==
    LET r == binary_search(book, order, side)
    IN IF ~r.found
       THEN [ok |-> TRUE, book |-> InsertAt(book, r.idx, order)]
       ELSE [ok |-> FALSE, book |-> book]

\* One call of try_fill: its arguments and what it returned.
TryFillCall(self, other, r) ==
    [self |-> self, other |-> other, some |-> r.some,
     self_after |-> r.self, other_after |-> r.other, fills |-> r.fills]

\* The loop counting every filled order for removal, exhausted or not.
RECURSIVE SweepFrom_CountAll(_, _, _, _, _, _, _)
SweepFrom_CountAll(book, order, side, i, fills, remove_count, tried) ==
    IF i > Len(book)
    THEN [book |-> book, order |-> order, fills |-> fills,
          remove_count |-> remove_count, tried |-> tried]
    ELSE LET r == try_fill(book[i], order, side)
             tried2 == Append(tried, TryFillCall(book[i], order, r))
         IN IF ~r.some
            THEN [book |-> book, order |-> order, fills |-> fills,
                  remove_count |-> remove_count, tried |-> tried2]
            ELSE LET book2 == [book EXCEPT ![i] = r.self]
                     fills2 == fills \o r.fills
                     rc2 == remove_count + 1
                 IN IF is_zero(r.other)
                    THEN [book |-> book2, order |-> r.other, fills |-> fills2,
                          remove_count |-> rc2, tried |-> tried2]
                    ELSE SweepFrom_CountAll(book2, r.other, side, i + 1, fills2, rc2,
                                            tried2)

\* The loop without the break on a fully filled incoming order.
RECURSIVE SweepFrom_NoBreak(_, _, _, _, _, _, _)
SweepFrom_NoBreak(book, order, side, i, fills, remove_count, tried) ==
    IF i > Len(book)
    THEN [book |-> book, order |-> order, fills |-> fills,
          remove_count |-> remove_count, tried |-> tried]
    ELSE LET r == try_fill(book[i], order, side)
             tried2 == Append(tried, TryFillCall(book[i], order, r))
         IN IF ~r.some
            THEN [book |-> book, order |-> order, fills |-> fills,
                  remove_count |-> remove_count, tried |-> tried2]
            ELSE LET book2 == [book EXCEPT ![i] = r.self]
                     fills2 == fills \o r.fills
                     rc2 == IF is_zero(r.self) THEN remove_count + 1 ELSE remove_count
                 IN SweepFrom_NoBreak(book2, r.other, side, i + 1, fills2, rc2, tried2)

\* The loop of OrderBook::submit_order from the i-th resting order on.  tried
\* is the list of the try_fill calls made so far.
RECURSIVE SweepFrom(_, _, _, _, _, _, _)
SweepFrom(book, order, side, i, fills, remove_count, tried) ==
    IF i > Len(book)
    THEN [book |-> book, order |-> order, fills |-> fills,
          remove_count |-> remove_count, tried |-> tried]
    ELSE LET r == try_fill(book[i], order, side)
             tried2 == Append(tried, TryFillCall(book[i], order, r))
         IN IF ~r.some
            THEN [book |-> book, order |-> order, fills |-> fills,
                  remove_count |-> remove_count, tried |-> tried2]
            ELSE LET book2 == [book EXCEPT ![i] = r.self]
                     fills2 == fills \o r.fills
                     rc2 == IF is_zero(r.self) THEN remove_count + 1 ELSE remove_count
                 IN IF is_zero(r.other)
                    THEN [book |-> book2, order |-> r.other, fills |-> fills2,
                          remove_count |-> rc2, tried |-> tried2]
                    ELSE SweepFrom(book2, r.other, side, i + 1, fills2, rc2, tried2)

Sweep(book, order, side) == SweepFrom(book, order, side, 1, << >>, 0, << >>)

\* drain that removes the front order only.
Drain_One(book, remove_count) == Tail(book)

\* drain over the inclusive range 0..=remove_count.
Drain_OneMore(book, remove_count) == SubSeq(book, remove_count + 2, Len(book))

\* VecDeque::drain(0..remove_count).
Drain(book, remove_count) == SubSeq(book, remove_count + 1, Len(book))

\* OrderBook::submit_order that leaves the filled orders in the book.
OrderBook_submit_order_NoDrain(book, order, side) ==
    LET s == Sweep(book, order, side)
    IN [book |-> s.book,
        swept |-> s.book,
        remove_count |-> s.remove_count,
        fills |-> s.fills,
        tried |-> s.tried,
        order |-> s.order,
        unfilled |-> ~is_zero(s.order)]

\* OrderBook::submit_order that moves a partly filled order to the back.
OrderBook_submit_order_Requeue(book, order, side) ==
    LET s == Sweep(book, order, side)
        kept == IF s.remove_count > 0 THEN Drain(s.book, s.remove_count) ELSE s.book
        partial == 2 * s.remove_count < Len(s.fills)
    IN [book |-> IF partial THEN Append(Tail(kept), Head(kept)) ELSE kept,
        swept |-> s.book,
        remove_count |-> s.remove_count,
        fills |-> s.fills,
        tried |-> s.tried,
        order |-> s.order,
        unfilled |-> ~is_zero(s.order)]

\* OrderBook::submit_order on the book of the given side.
OrderBook_submit_order(book, order, side) ==
    LET s == Sweep(book, order, side)
    IN [book |-> IF s.remove_count > 0 THEN Drain(s.book, s.remove_count) ELSE s.book,
        swept |-> s.book,
        remove_count |-> s.remove_count,
        fills |-> s.fills,
        tried |-> s.tried,
        order |-> s.order,
        unfilled |-> ~is_zero(s.order)]

\* Market::submit_order without the early return on amount == 0.
Market_submit_order_NoZeroCheck(n, b, s, trader_id, amount, price, side) ==
    LET order == LimitOrder(price, n, amount, trader_id)
        opp == IF side = "Buy" THEN s ELSE b
        own == IF side = "Buy" THEN b ELSE s
        m == OrderBook_submit_order(opp, order, opposite(side))
        ins == IF m.unfilled THEN insert_order(own, m.order, side)
               ELSE [ok |-> TRUE, book |-> own]
    IN [res |-> IF ins.ok THEN "Ok" ELSE "Panic",
        nonce |-> IF ins.ok THEN n + 1 ELSE n,
        buys |-> IF side = "Buy" THEN ins.book ELSE m.book,
        sells |-> IF side = "Buy" THEN m.book ELSE ins.book,
        fills |-> m.fills,
        swept |-> m.swept,
        remove_count |-> m.remove_count,
        tried |-> m.tried]

\* Market::submit_order that advances the nonce only when the order rests.
Market_submit_order_NonceOnRest(n, b, s, trader_id, amount, price, side) ==
    IF amount = 0
    THEN [res |-> "Ok", nonce |-> n, buys |-> b, sells |-> s, fills |-> << >>,
          swept |-> << >>, remove_count |-> 0, tried |-> << >>]
    ELSE LET order == LimitOrder(price, n, amount, trader_id)
             opp == IF side = "Buy" THEN s ELSE b
             own == IF side = "Buy" THEN b ELSE s
             m == OrderBook_submit_order(opp, order, opposite(side))
             ins == IF m.unfilled THEN insert_order(own, m.order, side)
                    ELSE [ok |-> TRUE, book |-> own]
         IN [res |-> IF ins.ok THEN "Ok" ELSE "Panic",
             nonce |-> IF ins.ok /\ m.unfilled THEN n + 1 ELSE n,
             buys |-> IF side = "Buy" THEN ins.book ELSE m.book,
             sells |-> IF side = "Buy" THEN m.book ELSE ins.book,
             fills |-> m.fills,
             swept |-> m.swept,
             remove_count |-> m.remove_count,
             tried |-> m.tried]

\* Market::submit_order that never advances the nonce.
Market_submit_order_NoAdvance(n, b, s, trader_id, amount, price, side) ==
    IF amount = 0
    THEN [res |-> "Ok", nonce |-> n, buys |-> b, sells |-> s, fills |-> << >>,
          swept |-> << >>, remove_count |-> 0, tried |-> << >>]
    ELSE LET order == LimitOrder(price, n, amount, trader_id)
             opp == IF side = "Buy" THEN s ELSE b
             own == IF side = "Buy" THEN b ELSE s
             m == OrderBook_submit_order(opp, order, opposite(side))
             ins == IF m.unfilled THEN insert_order(own, m.order, side)
                    ELSE [ok |-> TRUE, book |-> own]
         IN [res |-> IF ins.ok THEN "Ok" ELSE "Panic",
             nonce |-> n,
             buys |-> IF side = "Buy" THEN ins.book ELSE m.book,
             sells |-> IF side = "Buy" THEN m.book ELSE ins.book,
             fills |-> m.fills,
             swept |-> m.swept,
             remove_count |-> m.remove_count,
             tried |-> m.tried]

\* Market::submit_order that inserts the remainder into the book it swept.
Market_submit_order_WrongBook(n, b, s, trader_id, amount, price, side) ==
    IF amount = 0
    THEN [res |-> "Ok", nonce |-> n, buys |-> b, sells |-> s, fills |-> << >>,
          swept |-> << >>, remove_count |-> 0, tried |-> << >>]
    ELSE LET order == LimitOrder(price, n, amount, trader_id)
             opp == IF side = "Buy" THEN s ELSE b
             own == IF side = "Buy" THEN b ELSE s
             m == OrderBook_submit_order(opp, order, opposite(side))
             ins == IF m.unfilled THEN insert_order(m.book, m.order, opposite(side))
                    ELSE [ok |-> TRUE, book |-> m.book]
         IN [res |-> IF ins.ok THEN "Ok" ELSE "Panic",
             nonce |-> IF ins.ok THEN n + 1 ELSE n,
             buys |-> IF side = "Buy" THEN own ELSE ins.book,
             sells |-> IF side = "Buy" THEN ins.book ELSE own,
             fills |-> m.fills,
             swept |-> m.swept,
             remove_count |-> m.remove_count,
             tried |-> m.tried]

\* Market::submit_order that advances the nonce before it knows the insert
\* succeeded.
Market_submit_order_NonceFirst(n, b, s, trader_id, amount, price, side) ==
    IF amount = 0
    THEN [res |-> "Ok", nonce |-> n, buys |-> b, sells |-> s, fills |-> << >>,
          swept |-> << >>, remove_count |-> 0, tried |-> << >>]
    ELSE LET order == LimitOrder(price, n, amount, trader_id)
             opp == IF side = "Buy" THEN s ELSE b
             own == IF side = "Buy" THEN b ELSE s
             m == OrderBook_submit_order(opp, order, opposite(side))
             ins == IF m.unfilled THEN insert_order(own, m.order, side)
                    ELSE [ok |-> TRUE, book |-> own]
         IN [res |-> IF ins.ok THEN "Ok" ELSE "Panic",
             nonce |-> n + 1,
             buys |-> IF side = "Buy" THEN ins.book ELSE m.book,
             sells |-> IF side = "Buy" THEN m.book ELSE ins.book,
             fills |-> m.fills,
             swept |-> m.swept,
             remove_count |-> m.remove_count,
             tried |-> m.tried]

\* Market::submit_order as a function of the market's fields: the fields after
\* the call, the value returned and what the sweep did.
Market_submit_order(n, b, s, trader_id, amount, price, side) ==
    IF amount = 0
    THEN [res |-> "Ok", nonce |-> n, buys |-> b, sells |-> s, fills |-> << >>,
          swept |-> << >>, remove_count |-> 0, tried |-> << >>]
    ELSE LET order == LimitOrder(price, n, amount, trader_id)
             opp == IF side = "Buy" THEN s ELSE b
             own == IF side = "Buy" THEN b ELSE s
             m == OrderBook_submit_order(opp, order, opposite(side))
             ins == IF m.unfilled THEN insert_order(own, m.order, side)
                    ELSE [ok |-> TRUE, book |-> own]
         IN [res |-> IF ins.ok THEN "Ok" ELSE "Panic",
             nonce |-> IF ins.ok THEN n + 1 ELSE n,
             buys |-> IF side = "Buy" THEN ins.book ELSE m.book,
             sells |-> IF side = "Buy" THEN m.book ELSE ins.book,
             fills |-> m.fills,
             swept |-> m.swept,
             remove_count |-> m.remove_count,
             tried |-> m.tried]

\* nonce, buys, sells: the fields of Market.  last: the latest call, with the
\* fields as they were before it.  calls: the number of calls with amount > 0.
VARIABLES nonce, buys, sells, last, calls

vars == << nonce, buys, sells, last, calls >>

NoPrice == [neg |-> FALSE, mag |-> 0]

NoCall ==
    [res |-> "None", trader_id |-> 0, amount |-> 0, price |-> NoPrice, side |-> "Buy",
     nonce |-> 0, buys |-> << >>, sells |-> << >>, fills |-> << >>,
     swept |-> << >>, remove_count |-> 0, tried |-> << >>]

\* Market::default().
Init ==
    /\ nonce = 0
    /\ buys = << >>
    /\ sells = << >>
    /\ last = NoCall
    /\ calls = 0

\* The record of a call that returned r.
CallRecord(r, trader_id, amount, price, side) ==
    [res |-> r.res, trader_id |-> trader_id, amount |-> amount,
     price |-> price, side |-> side, nonce |-> nonce, buys |-> buys,
     sells |-> sells, fills |-> r.fills, swept |-> r.swept,
     remove_count |-> r.remove_count, tried |-> r.tried]

\* The market after a call that returned r.
SubmitReturn(r, trader_id, amount, price, side) ==
    /\ nonce' = r.nonce
    /\ buys' = r.buys
    /\ sells' = r.sells
    /\ last' = CallRecord(r, trader_id, amount, price, side)
    /\ calls' = IF amount > 0 THEN calls + 1 ELSE calls

\* A call of Market::submit_order.
SubmitOrder(trader_id, amount, price, side) ==
    /\ amount > 0 => calls < MaxNonce
    /\ SubmitReturn(Market_submit_order(nonce, buys, sells, trader_id, amount, price, side),
                    trader_id, amount, price, side)

Next ==
    \E t \in Traders, a \in Amounts, p \in Prices, s \in Sides : SubmitOrder(t, a, p, s)

Spec == Init /\ [][Next]_vars

(***************************************************************************)
(* Longer runs with larger amounts, for the properties of the sweep: one   *)
(* trader submits orders of non-zero amount.                               *)
(***************************************************************************)

MaxDeepAmount == 3
MaxDeepCalls == 4

DeepTrader == 1

\* A call of Market::submit_order with amount > 0 by the one trader.
DeepSubmitOrder(amount, price, side) ==
    /\ calls < MaxDeepCalls
    /\ LET r == Market_submit_order(nonce, buys, sells, DeepTrader, amount, price, side)
       IN /\ nonce' = r.nonce
          /\ buys' = r.buys
          /\ sells' = r.sells
          /\ last' = CallRecord(r, DeepTrader, amount, price, side)
          /\ calls' = calls + 1

DeepNext ==
    \E a \in 1..MaxDeepAmount, p \in Prices, s \in Sides : DeepSubmitOrder(a, p, s)

SpecDeep == Init /\ [][DeepNext]_vars

(***************************************************************************)
(* The duplicate key.  insert_order fails only when the nonce being        *)
(* stamped is already in the book, which takes the u64 counter to wrap, as *)
(* `self.nonce += 1` does in a build without overflow checks.  NonceWrap   *)
(* stands for 2^64, so that the wrap is within reach of the model.         *)
(***************************************************************************)

NonceWrap == 2
MaxWrapCalls == 3

\* A call of Market::submit_order with amount > 0 and a wrapping nonce.  A
\* call that panicked leaves the market as the panic found it.
WrapSubmitOrder(trader_id, amount, price, side) ==
    /\ calls < MaxWrapCalls
    /\ LET r == Market_submit_order(nonce, buys, sells, trader_id, amount, price, side)
       IN /\ nonce' = r.nonce % NonceWrap
          /\ buys' = r.buys
          /\ sells' = r.sells
          /\ last' = CallRecord(r, trader_id, amount, price, side)
          /\ calls' = calls + 1

WrapNext ==
    \E t \in Traders, a \in 1..MaxAmount, p \in Prices, s \in Sides :
        WrapSubmitOrder(t, a, p, s)

SpecWrap == Init /\ [][WrapNext]_vars

(***************************************************************************)
(* OrderBook::insert_order on its own: orders with any keys are inserted,  *)
(* in any order, into the two books.                                       *)
(***************************************************************************)

MaxTwinCalls == 3

\* A second Market::default(), and no call made on it.
NoTwin ==
    [res |-> "None", trader_id |-> 0, nonce |-> 0, buys |-> << >>,
     sells |-> << >>, fills |-> << >>]

\* The record c of a call on the first market with the second market beside it.
TwinRecord(c, twin) ==
    [res |-> c.res, trader_id |-> c.trader_id, amount |-> c.amount,
     price |-> c.price, side |-> c.side, nonce |-> c.nonce, buys |-> c.buys,
     sells |-> c.sells, fills |-> c.fills, swept |-> c.swept,
     remove_count |-> c.remove_count, tried |-> c.tried, twin |-> twin]

\* Two markets after Market::default(): the first in nonce, buys and sells,
\* the second in last.twin.
TwinInit ==
    /\ nonce = 0
    /\ buys = << >>
    /\ sells = << >>
    /\ last = TwinRecord(NoCall, NoTwin)
    /\ calls = 0

\* The two markets after the same call returned r on the first, made as
\* trader_id, and t on the second, made as twin_id.
TwinReturn(r, t, trader_id, twin_id, amount, price, side) ==
    /\ nonce' = r.nonce
    /\ buys' = r.buys
    /\ sells' = r.sells
    /\ last' = TwinRecord(CallRecord(r, trader_id, amount, price, side),
                          [res |-> t.res, trader_id |-> twin_id,
                           nonce |-> t.nonce, buys |-> t.buys,
                           sells |-> t.sells, fills |-> t.fills])
    /\ calls' = calls + 1

\* The same call of Market::submit_order made on both markets, as trader_id
\* on the first and as twin_id on the second.
TwinSubmitOrder(trader_id, twin_id, amount, price, side) ==
    /\ calls < MaxTwinCalls
    /\ TwinReturn(Market_submit_order(nonce, buys, sells, trader_id, amount, price, side),
                  Market_submit_order(last.twin.nonce, last.twin.buys, last.twin.sells,
                                      twin_id, amount, price, side),
                  trader_id, twin_id, amount, price, side)

TwinNext ==
    \E t \in Traders, u \in Traders, a \in Amounts, p \in Prices, s \in Sides :
        TwinSubmitOrder(t, u, a, p, s)

SpecTwin == TwinInit /\ [][TwinNext]_vars

MaxInserts == 3
MaxKeyNonce == 2

\* insert_order of an order whose key (price, nonce) is not in the book.
InsertOrder(side, price, n, amount) ==
    /\ calls < MaxInserts
    /\ LET book == IF side = "Buy" THEN buys ELSE sells
           order == LimitOrder(price, n, amount, DeepTrader)
           r == insert_order(book, order, side)
       IN /\ \A i \in 1..Len(book) : ~(book[i].price = price /\ book[i].nonce = n)
          /\ buys' = IF side = "Buy" THEN r.book ELSE buys
          /\ sells' = IF side = "Sell" THEN r.book ELSE sells
          /\ last' = [NoCall EXCEPT !.res = IF r.ok THEN "Inserted" ELSE "Err",
                                    !.trader_id = DeepTrader, !.amount = amount,
                                    !.price = price, !.side = side, !.nonce = n,
                                    !.buys = buys, !.sells = sells]
    /\ calls' = calls + 1
    /\ UNCHANGED nonce

InsertNext ==
    \E s \in Sides, p \in Prices, n \in 0..MaxKeyNonce, a \in 1..MaxAmount :
        InsertOrder(s, p, n, a)

SpecInsert == Init /\ [][InsertNext]_vars

(***************************************************************************)
(* Vocabulary of the properties.  The latest call acted on the books held  *)
(* in last; the books of the state are the books after it.                 *)
(***************************************************************************)

RECURSIVE SumAmounts(_)
SumAmounts(seq) ==
    IF seq = << >> THEN 0 ELSE seq[1].amount + SumAmounts(Tail(seq))

Elems(seq) == { seq[i] : i \in 1..Len(seq) }

Called == last.res # "None"

Traded == Called /\ last.amount > 0

RestingSide == opposite(last.side)

PreOpp == IF last.side = "Buy" THEN last.sells ELSE last.buys

PreOwn == IF last.side = "Buy" THEN last.buys ELSE last.sells

PostOpp == IF last.side = "Buy" THEN sells ELSE buys

PostOwn == IF last.side = "Buy" THEN buys ELSE sells

\* The amount the order stamped n has in a book, 0 when it is not there.
AmountIn(book, n) ==
    IF \E i \in 1..Len(book) : book[i].nonce = n
    THEN (CHOOSE o \in Elems(book) : o.nonce = n).amount
    ELSE 0

\* q has priority over r in a book of the given side: better price, or the
\* same price and a smaller sequence number.  Prices are compared as the
\* books compare them, by total order.
Ahead(q, r, side) ==
    \/ side = "Buy" /\ TotalKey(q.price) > TotalKey(r.price)
    \/ side = "Sell" /\ TotalKey(q.price) < TotalKey(r.price)
    \/ q.price = r.price /\ q.nonce < r.nonce

ReceivedFill(r) == AmountIn(PostOpp, r.nonce) < r.amount

Consumed(r) == AmountIn(PostOpp, r.nonce) = 0

FilledSet == { r \in Elems(PreOpp) : ReceivedFill(r) }

\* The orders that received a fill, by priority: the k-th has k-1 ahead of it.
FilledAt(k) ==
    CHOOSE r \in FilledSet :
        Cardinality({ q \in FilledSet : Ahead(q, r, RestingSide) }) = k - 1

NumPairs == Len(last.fills) \div 2

\* C1: within a call, a resting order receives a fill only if every resting
\* order with priority over it is fully consumed, and the fill list visits the
\* filled orders by priority, best price first and oldest first at one price.
PriceTimePriority ==
    Traded =>
        /\ \A q \in Elems(PreOpp), r \in Elems(PreOpp) :
               (Ahead(q, r, RestingSide) /\ ReceivedFill(r)) => Consumed(q)
        /\ Len(last.fills) = 2 * Cardinality(FilledSet)
        /\ \A k \in 1..NumPairs :
               /\ last.fills[2 * k - 1].trader = FilledAt(k).trader_id
               /\ last.fills[2 * k - 1].amount =
                      FilledAt(k).amount - AmountIn(PostOpp, FilledAt(k).nonce)
        /\ \A k \in 1..(NumPairs - 1) :
               LET f == last.fills[2 * k - 1]
                   g == last.fills[2 * k + 1]
               IN IF RestingSide = "Buy"
                  THEN TotalKey(f.price) >= TotalKey(g.price)
                  ELSE TotalKey(f.price) <= TotalKey(g.price)

\* A call filled two resting orders of one price, the older one first, and left
\* the younger one partly filled.
WitnessPriceTimePriority ==
    /\ Traded
    /\ NumPairs = 2
    /\ FilledAt(1).price = FilledAt(2).price
    /\ FilledAt(1).trader_id # FilledAt(2).trader_id
    /\ ~Consumed(FilledAt(2))

\* C2: after every call, when both books are non-empty the front buy price
\* is strictly less than the front sell price.
BooksNeverCross ==
    (buys # << >> /\ sells # << >>) => Val(buys[1].price) < Val(sells[1].price)

\* Both books are non-empty after a call that traded and rested its remainder.
WitnessBooksNeverCross ==
    /\ Traded
    /\ last.fills # << >>
    /\ buys # << >>
    /\ sells # << >>
    /\ AmountIn(PostOwn, last.nonce) > 0

SideFills(side) == SelectSeq(last.fills, LAMBDA f : f.side = side)

\* C3: in a call with amount > 0 the incoming side's fills and the resting
\* remainder add up to the submitted amount, both sides' fills have the same
\* total, and the opposite book's total amount drops by that total.
QuantityConservation ==
    Traded =>
        /\ SumAmounts(SideFills(last.side)) + AmountIn(PostOwn, last.nonce) = last.amount
        /\ SumAmounts(SideFills("Buy")) = SumAmounts(SideFills("Sell"))
        /\ SumAmounts(PreOpp) - SumAmounts(PostOpp) = SumAmounts(SideFills(last.side))

\* A call filled one resting order wholly and another partly.
WitnessQuantityConservation ==
    /\ Traded
    /\ NumPairs = 2
    /\ PostOpp # << >>
    /\ SumAmounts(PreOpp) - SumAmounts(PostOpp) = last.amount

\* C4: the fill list has even length; the fills of a pair have the same amount
\* and price, opposite sides and swapped parties; the first is the resting
\* party's and the second the incoming party's.
FillsInPairs ==
    Called =>
        /\ Len(last.fills) % 2 = 0
        /\ \A k \in 1..NumPairs :
               LET f == last.fills[2 * k - 1]
                   g == last.fills[2 * k]
               IN /\ f.amount = g.amount
                  /\ f.price = g.price
                  /\ f.side = opposite(g.side)
                  /\ f.trader = g.counter_party
                  /\ f.counter_party = g.trader
                  /\ f.side = RestingSide
                  /\ g.side = last.side
                  /\ g.trader = last.trader_id
                  /\ \E r \in Elems(PreOpp) : r.trader_id = f.trader

\* A call returned two pairs and the two parties of a pair differ.
WitnessFillsInPairs ==
    /\ Called
    /\ NumPairs = 2
    /\ last.fills[1].trader # last.fills[2].trader

\* C5: both fills of a pair carry the price of the resting order matched, also
\* when the incoming order's limit price differs from it.
FillAtRestingPrice ==
    Traded =>
        \A k \in 1..NumPairs :
            /\ k <= Cardinality(FilledSet)
            /\ last.fills[2 * k - 1].price = FilledAt(k).price
            /\ last.fills[2 * k].price = FilledAt(k).price

\* A call traded with a resting order whose price is not the incoming price.
WitnessFillAtRestingPrice ==
    /\ Traded
    /\ NumPairs >= 1
    /\ Val(FilledAt(1).price) # Val(last.price)
    /\ last.fills[2].price # last.price

SortedBook(book, side) ==
    \A i \in 1..Len(book), j \in 1..Len(book) :
        i < j =>
            \/ side = "Buy" /\ TotalKey(book[i].price) > TotalKey(book[j].price)
            \/ side = "Sell" /\ TotalKey(book[i].price) < TotalKey(book[j].price)
            \/ book[i].price = book[j].price /\ book[i].nonce < book[j].nonce

\* C6: the buy book is strictly sorted by descending price then ascending
\* sequence number, the sell book by ascending price then ascending sequence
\* number; no two resting orders have the same (price, sequence) key.
BooksSorted ==
    /\ SortedBook(buys, "Buy")
    /\ SortedBook(sells, "Sell")

\* A book holds three orders, two of them at one price.
WitnessBooksSorted ==
    \E side \in Sides :
        LET book == IF side = "Buy" THEN buys ELSE sells
        IN /\ Len(book) = 3
           /\ \E i \in 1..2 : book[i].price = book[i + 1].price
           /\ \E i \in 1..2 : book[i].price # book[i + 1].price
           /\ book[1].nonce > book[2].nonce

\* C7: after every call every order in either book has amount > 0.
NoZeroAmountRests ==
    \A o \in Elems(buys) \cup Elems(sells) : o.amount > 0

\* A call consumed the front resting order wholly and left orders behind it.
WitnessNoZeroAmountRests ==
    /\ Traded
    /\ last.remove_count >= 1
    /\ PostOpp # << >>
    /\ Len(PostOpp) < Len(PreOpp)

\* C8: a call with amount 0 returns no fills and leaves both books and the
\* sequence counter as they were.
ZeroAmountNoOp ==
    (Called /\ last.amount = 0) =>
        /\ last.res = "Ok"
        /\ last.fills = << >>
        /\ buys = last.buys
        /\ sells = last.sells
        /\ nonce = last.nonce

\* A call with amount 0 whose price crosses a resting order.
WitnessZeroAmountNoOp ==
    /\ Called
    /\ last.amount = 0
    /\ PreOpp # << >>
    /\ Crosses(PreOpp[1], [price |-> last.price], RestingSide)

\* C9: the sequence counter starts at 0 and advances by one on every call with
\* amount > 0, so the k-th such call is stamped k-1 and no two orders share a
\* sequence number.
SequenceCounter ==
    /\ nonce = calls
    /\ ~Called => nonce = 0
    /\ Traded => (nonce = last.nonce + 1 /\ last.nonce = calls - 1)
    /\ (Traded /\ PostOwn # PreOwn) => AmountIn(PostOwn, last.nonce) > 0
    /\ \A i \in 1..Len(buys), j \in 1..Len(buys) : i # j => buys[i].nonce # buys[j].nonce
    /\ \A i \in 1..Len(sells), j \in 1..Len(sells) : i # j => sells[i].nonce # sells[j].nonce
    /\ \A o \in Elems(buys), q \in Elems(sells) : o.nonce # q.nonce
    /\ \A o \in Elems(buys) \cup Elems(sells) : o.nonce < nonce

\* A call with two pairs of fills was filled wholly and never rested.
WitnessSequenceCounter ==
    /\ Traded
    /\ NumPairs = 2
    /\ PostOwn = PreOwn
    /\ nonce = 3

\* The incoming order of the latest call, as submitted.
Incoming == LimitOrder(last.price, last.nonce, last.amount, last.trader_id)

NonCrossing ==
    \/ PreOpp = << >>
    \/ last.side = "Buy" /\ Val(last.price) < Val(PreOpp[1].price)
    \/ last.side = "Sell" /\ Val(last.price) > Val(PreOpp[1].price)

\* C10: a call with amount > 0 whose price does not cross the front of the
\* opposite book (or finds it empty) returns no fills, leaves the opposite book
\* as it was and adds to its own book the one order submitted, in full.
NonCrossingRests ==
    (Traded /\ NonCrossing) =>
        /\ last.fills = << >>
        /\ PostOpp = PreOpp
        /\ Len(PostOwn) = Len(PreOwn) + 1
        /\ Elems(PostOwn) = Elems(PreOwn) \cup { Incoming }
        /\ \A i \in 1..Len(PreOwn), j \in 1..Len(PreOwn) :
               i < j => \E k \in 1..Len(PostOwn), l \in 1..Len(PostOwn) :
                            k < l /\ PostOwn[k] = PreOwn[i] /\ PostOwn[l] = PreOwn[j]

\* A call did not cross a non-empty opposite book and joined a non-empty book.
WitnessNonCrossingRests ==
    /\ Traded
    /\ NonCrossing
    /\ PreOpp # << >>
    /\ PreOwn # << >>

\* The resting order r crosses the price of the latest call.
CrossesIncoming(r) ==
    IF last.side = "Buy" THEN Val(r.price) <= Val(last.price)
                         ELSE Val(r.price) >= Val(last.price)

CrossingOrders == SelectSeq(PreOpp, LAMBDA r : CrossesIncoming(r))

OtherOrders == SelectSeq(PreOpp, LAMBDA r : ~CrossesIncoming(r))

\* C11: a call whose amount exceeds the total amount of the opposite-book
\* orders that cross its price removes every such order (the whole book when
\* all cross) and rests with the submitted amount minus that total.
ClearsAndRests ==
    (Traded /\ last.amount > SumAmounts(CrossingOrders)) =>
        /\ \A r \in Elems(CrossingOrders), i \in 1..Len(PostOpp) :
               PostOpp[i].nonce # r.nonce
        /\ PostOpp = OtherOrders
        /\ OtherOrders = << >> => PostOpp = << >>
        /\ \E o \in Elems(PostOwn) :
               /\ o.nonce = last.nonce
               /\ o.price = last.price
               /\ o.trader_id = last.trader_id
               /\ o.amount = last.amount - SumAmounts(CrossingOrders)

\* A call cleared two crossing orders, left a third that did not cross and
\* rested with a remainder.
WitnessClearsAndRests ==
    /\ Traded
    /\ Len(CrossingOrders) = 2
    /\ Len(OtherOrders) = 1
    /\ last.amount > SumAmounts(CrossingOrders)
    /\ AmountIn(PostOwn, last.nonce) = 1

\* C12: every call returns Ok: the remainder to insert never has the (price,
\* sequence) key of an order already resting in its own book.
NeverFails ==
    Called =>
        /\ last.res = "Ok"
        /\ \A o \in Elems(PreOwn) : ~(o.price = last.price /\ o.nonce = last.nonce)
        /\ \A o \in Elems(PreOwn) \cup Elems(PreOpp) : o.nonce < last.nonce

\* A remainder was inserted into a book that held an order of the same price.
WitnessNeverFails ==
    /\ Traded
    /\ last.res = "Ok"
    /\ AmountIn(PostOwn, last.nonce) > 0
    /\ \E o \in Elems(PreOwn) : o.price = last.price

Nonces(book) == { book[i].nonce : i \in 1..Len(book) }

\* o is the order r, possibly with a smaller amount.
SameOrder(o, r) ==
    /\ o.nonce = r.nonce
    /\ o.price = r.price
    /\ o.trader_id = r.trader_id
    /\ o.amount <= r.amount

\* C13: no sequence number is in both books or twice in one; an order enters
\* the buy book only from a Buy call and the sell book only from a Sell call;
\* a call matches its order only against orders of the opposite book.
BooksDisjointSidePure ==
    /\ Nonces(buys) \cap Nonces(sells) = {}
    /\ Cardinality(Nonces(buys)) = Len(buys)
    /\ Cardinality(Nonces(sells)) = Len(sells)
    /\ Traded =>
        /\ \A o \in Elems(PostOpp) : \E r \in Elems(PreOpp) : SameOrder(o, r)
        /\ \A o \in Elems(PostOwn) :
               \/ o \in Elems(PreOwn)
               \/ SameOrder(o, Incoming)
        /\ \A r \in Elems(PreOwn) : r \in Elems(PostOwn)
        /\ \A i \in 1..Len(last.tried) :
               /\ last.tried[i].self \in Elems(PreOpp)
               /\ last.tried[i].other.nonce = last.nonce
        /\ \A k \in 1..NumPairs :
               /\ last.fills[2 * k - 1].side = RestingSide
               /\ \E r \in Elems(PreOpp) : r.trader_id = last.fills[2 * k - 1].trader

\* A call traded with the opposite book and rested in a non-empty own book.
WitnessBooksDisjointSidePure ==
    /\ Traded
    /\ NumPairs >= 1
    /\ PreOwn # << >>
    /\ Len(PostOwn) = Len(PreOwn) + 1

\* The orders of a set by the priority of a side: the k-th has k-1 ahead of it.
SortedSeq(S, side) ==
    [k \in 1..Cardinality(S) |->
        CHOOSE r \in S : Cardinality({ q \in S : Ahead(q, r, side) }) = k - 1]

\* C14: orders with pairwise distinct keys inserted into an empty book in any
\* order give the one sequence sorted by the side's ordering.
InsertionOrderIrrelevant ==
    /\ buys = SortedSeq(Elems(buys), "Buy")
    /\ sells = SortedSeq(Elems(sells), "Sell")
    /\ Called =>
        /\ last.res = "Inserted"
        /\ Elems(PostOwn) = Elems(PreOwn) \cup { Incoming }
        /\ Len(PostOwn) = Len(PreOwn) + 1
        /\ PostOpp = PreOpp

\* The third order inserted into a book went between two orders that came in
\* against their sorted order.
WitnessInsertionOrderIrrelevant ==
    /\ Called
    /\ Len(PostOwn) = 3
    /\ PostOwn[2] = Incoming
    /\ PostOwn[1].nonce > PostOwn[3].nonce
    /\ PostOwn[1].price = PostOwn[2].price

\* C15: a call that ends in the duplicate-key failure of insert_order leaves
\* the opposite book, the own book and the sequence counter as they were.
FailureLeavesNoTrace ==
    last.res = "Panic" =>
        /\ buys = last.buys
        /\ sells = last.sells
        /\ nonce = last.nonce

\* A call failed on a duplicate key while the opposite book held orders.
WitnessFailureLeavesNoTrace ==
    /\ last.res = "Panic"
    /\ PreOpp # << >>
    /\ \E o \in Elems(PreOwn) : o.price = last.price /\ o.nonce = last.nonce

\* The call consumed a part of the resting order r and not all of it.
PartlyFilled(r) ==
    /\ AmountIn(PostOpp, r.nonce) > 0
    /\ AmountIn(PostOpp, r.nonce) < r.amount

\* C16: a resting order consumed in part stays in its book with its price,
\* sequence number and trader, its amount reduced by the quantity traded, at
\* the front of the book and ahead of the same orders in the same order.
NoRequeue ==
    Traded =>
        \A i \in 1..Len(PreOpp) :
            PartlyFilled(PreOpp[i]) =>
                /\ last.fills # << >>
                /\ last.fills[Len(last.fills) - 1].trader = PreOpp[i].trader_id
                /\ PostOpp[1] =
                       [PreOpp[i] EXCEPT
                           !.amount = PreOpp[i].amount - last.fills[Len(last.fills)].amount]
                /\ Tail(PostOpp) = SubSeq(PreOpp, i + 1, Len(PreOpp))

\* A call consumed one resting order wholly and a part of the next, which has
\* another order behind it.
WitnessNoRequeue ==
    /\ Traded
    /\ Len(PreOpp) = 3
    /\ PartlyFilled(PreOpp[2])
    /\ Len(PostOpp) = 2

\* A sweep that examines every resting order: it fills each order that crosses
\* while the incoming order has amount left, and removes the exhausted ones.
RECURSIVE FullSweepFrom(_, _, _, _, _)
FullSweepFrom(book, order, side, i, fills) ==
    IF i > Len(book)
    THEN [book |-> SelectSeq(book, LAMBDA o : ~is_zero(o)), order |-> order,
          fills |-> fills]
    ELSE LET r == try_fill(book[i], order, side)
         IN IF r.some /\ ~is_zero(order)
            THEN FullSweepFrom([book EXCEPT ![i] = r.self], r.other, side, i + 1,
                               fills \o r.fills)
            ELSE FullSweepFrom(book, order, side, i + 1, fills)

FullSweep == FullSweepFrom(PreOpp, Incoming, RestingSide, 1, << >>)

\* The sweep of the latest call stopped at a resting order that did not cross.
StoppedAtNoCross ==
    /\ last.tried # << >>
    /\ ~last.tried[Len(last.tried)].some

\* C17: when the sweep stops at the first resting order that does not cross,
\* no order behind it crosses, and the fills, the resulting book and the
\* remainder are those of a sweep that examines every resting order.
EarlyExitCorrect ==
    Traded =>
        /\ StoppedAtNoCross =>
               \A j \in Len(last.tried)..Len(PreOpp) : ~CrossesIncoming(PreOpp[j])
        /\ FullSweep.fills = last.fills
        /\ FullSweep.book = PostOpp
        /\ FullSweep.order.amount = AmountIn(PostOwn, last.nonce)

\* A sweep filled an order, stopped at the next, which did not cross, and left
\* one more behind it unexamined.
WitnessEarlyExitCorrect ==
    /\ Traded
    /\ StoppedAtNoCross
    /\ Len(last.tried) = 2
    /\ Len(PreOpp) = 3
    /\ AmountIn(PostOwn, last.nonce) > 0

\* The positions of the orders the sweep consumed in part.
PartlySwept ==
    { i \in 1..Len(last.swept) :
        last.swept[i].amount > 0 /\ last.swept[i].amount < PreOpp[i].amount }

\* C18: when the loop ends the resting orders with amount 0 are exactly the
\* first remove_count orders of the book, so the drain removes every
\* exhausted order and no other; at most one order is left partly filled,
\* the last one matched.
ExhaustedPrefix ==
    Traded =>
        /\ Len(last.swept) = Len(PreOpp)
        /\ \A i \in 1..Len(last.swept) :
               last.swept[i].amount = 0 <=> i <= last.remove_count
        /\ PostOpp = SubSeq(last.swept, last.remove_count + 1, Len(last.swept))
        /\ Cardinality(PartlySwept) <= 1
        /\ \A i \in PartlySwept : i = last.remove_count + 1 /\ i = NumPairs

\* A sweep exhausted two orders and consumed a part of the third.
WitnessExhaustedPrefix ==
    /\ Traded
    /\ last.remove_count = 2
    /\ PartlySwept = { 3 }

MinAmount(a, b) == IF a <= b THEN a ELSE b

\* What the claim says of one try_fill call c of the latest sweep.
TryFillArithmetic(c) ==
    LET traded == MinAmount(c.self.amount, c.other.amount)
    IN IF CrossesIncoming(c.self)
       THEN /\ c.some
            /\ Len(c.fills) = 2
            /\ c.fills[1].amount = traded
            /\ c.fills[2].amount = traded
            /\ c.self_after.amount = c.self.amount - traded
            /\ c.other_after.amount = c.other.amount - traded
            /\ c.self_after.amount >= 0
            /\ c.other_after.amount >= 0
            /\ c.self_after.amount = 0 \/ c.other_after.amount = 0
            /\ c.self.amount = c.other.amount =>
                   (c.self_after.amount = 0 /\ c.other_after.amount = 0)
            /\ c.self_after = [c.self EXCEPT !.amount = c.self_after.amount]
            /\ c.other_after = [c.other EXCEPT !.amount = c.other_after.amount]
       ELSE /\ ~c.some
            /\ c.fills = << >>
            /\ c.self_after = c.self
            /\ c.other_after = c.other

\* C19: a try_fill call on two orders that cross trades the smaller of the
\* two amounts, subtracts it from both without underflow and leaves at least
\* one of them at 0 (both when the amounts were equal); on two orders that do
\* not cross it produces no fill and changes neither amount.
TryFillArithmeticHolds ==
    \A i \in 1..Len(last.tried) :
        /\ last.tried[i].other.price = last.price
        /\ TryFillArithmetic(last.tried[i])

\* A sweep made two calls on orders that crossed, the resting amount being
\* the smaller, and a third on orders that did not cross.
WitnessTryFillArithmeticHolds ==
    /\ Len(last.tried) = 3
    /\ last.tried[1].some
    /\ last.tried[1].self.amount < last.tried[1].other.amount
    /\ last.tried[2].some
    /\ ~last.tried[3].some
    /\ last.tried[3].other.amount > 0

\* C20: in every try_fill call of every submit_order call the resting order
\* and the incoming order both have amount > 0, and every fill returned has
\* amount > 0.
NoZeroIntoTryFill ==
    /\ \A i \in 1..Len(last.tried) :
           /\ last.tried[i].self.amount > 0
           /\ last.tried[i].other.amount > 0
    /\ \A k \in 1..Len(last.fills) : last.fills[k].amount > 0
    /\ (Called /\ last.amount = 0) => last.tried = << >>

\* A sweep filled the incoming order exactly and stopped with a crossing
\* order left untouched behind the last one filled.
WitnessNoZeroIntoTryFill ==
    /\ Traded
    /\ Len(last.tried) = 1
    /\ last.tried[1].other_after.amount = 0
    /\ Len(PreOpp) = 2
    /\ CrossesIncoming(PreOpp[2])

\* The order r of the book of a side, over one step: the books before the step
\* are buys and sells, the call of the step is last'.
LifecycleStep(r, side) ==
    LET book2 == IF side = "Buy" THEN buys' ELSE sells'
        other2 == IF side = "Buy" THEN sells' ELSE buys'
        after == AmountIn(book2, r.nonce)
    IN /\ after >= 0
       /\ after <= r.amount
       /\ after # r.amount => (last'.amount > 0 /\ last'.side = opposite(side))
       /\ after > 0 =>
              \E o \in Elems(book2) :
                  o = [r EXCEPT !.amount = after]
       /\ after = 0 =>
              /\ r.nonce \notin Nonces(book2)
              /\ \E i \in 1..Len(last'.tried) :
                     /\ last'.tried[i].self = r
                     /\ last'.tried[i].self_after.amount = 0
                     /\ last'.tried[i].fills[1].amount = r.amount
       /\ r.nonce \notin Nonces(other2)

\* C21: over any sequence of calls the amount of a resting order never
\* increases, changes only in a call on the opposite side, the order leaves
\* its book only in a call whose fill brings its amount to 0, and a sequence
\* number that is no longer in a book is never in a book again.
OrderLifecycle ==
    [][ /\ \A r \in Elems(buys) : LifecycleStep(r, "Buy")
        /\ \A r \in Elems(sells) : LifecycleStep(r, "Sell")
        /\ \A n \in 0..(nonce - 1) :
               n \notin (Nonces(buys) \cup Nonces(sells)) =>
                   n \notin (Nonces(buys') \cup Nonces(sells'))
      ]_vars

\* A call exhausted one resting order and consumed a part of the next, while
\* an order rested on the call's own side and an earlier order was gone.
WitnessOrderLifecycle ==
    /\ Traded
    /\ last.remove_count = 1
    /\ PartlySwept # {}
    /\ Len(PostOpp) = Len(PreOpp) - 1
    /\ \E n \in 0..(last.nonce - 1) : n \notin (Nonces(last.buys) \cup Nonces(last.sells))

\* A fill list and a book without the trader fields.
FillsNoTrader(fills) ==
    [i \in 1..Len(fills) |->
        [amount |-> fills[i].amount, price |-> fills[i].price, side |-> fills[i].side]]

BookNoTrader(book) ==
    [i \in 1..Len(book) |->
        [price |-> book[i].price, nonce |-> book[i].nonce, amount |-> book[i].amount]]

\* The latest call, of a positive amount, met a crossing resting order of its
\* own trader at the head of the opposite book.
SelfCross ==
    /\ Called
    /\ last.amount > 0
    /\ PreOpp # << >>
    /\ CrossesIncoming(PreOpp[1])
    /\ PreOpp[1].trader_id = last.trader_id

\* C22: two runs of the same calls that differ only in the trader_id
\* arguments return fill lists equal in amount, price and side, and reach
\* books equal in price, sequence and amount; an incoming order is matched
\* against a crossing resting order of its own trader.
TraderBlind ==
    /\ last.res = last.twin.res
    /\ nonce = last.twin.nonce
    /\ FillsNoTrader(last.fills) = FillsNoTrader(last.twin.fills)
    /\ BookNoTrader(buys) = BookNoTrader(last.twin.buys)
    /\ BookNoTrader(sells) = BookNoTrader(last.twin.sells)
    /\ SelfCross =>
           /\ Len(last.fills) >= 2
           /\ \A i \in 1..2 : /\ last.fills[i].trader = last.trader_id
                              /\ last.fills[i].counter_party = last.trader_id

\* The call traded with a resting order of its own trader in the first run and
\* with one of another trader in the second, and left a remainder in a book.
WitnessTraderBlind ==
    /\ SelfCross
    /\ last.fills # << >>
    /\ last.fills[1].trader = last.fills[1].counter_party
    /\ last.twin.fills # << >>
    /\ last.twin.fills[1].trader # last.twin.fills[1].counter_party
    /\ buys # last.twin.buys \/ sells # last.twin.sells

====
